---- MODULE Spec2Model ----
(***************************************************************************)
(* Model of the archive-as-filesystem adapter of src/src/fs/archive.rs:    *)
(* TarReader (record -> ArchiveEntry), ArchiveReader::read_dir,            *)
(* ArchiveFormat::from_extension, Archive::from_path, Archive::files,      *)
(* ArchiveIterator::next and the Filelike accessors of ArchiveEntry.       *)
(*                                                                         *)
(* Strings are sequences of tokens.  In a path the token "/" is the        *)
(* separator and "." the dot; every other token is an indivisible piece    *)
(* of a name.  In an error message the token "\n" is the line break.       *)
(***************************************************************************)
EXTENDS Integers, Sequences, FiniteSets, TLC

VARIABLES
    fsPath,        \* the container path handed to Archive::from_path
    fileOpens,     \* whether fs::File::open(path) succeeds
    entriesStart,  \* whether tar::Archive::entries() succeeds
    stream,        \* what the tar entries iterator emits, in emission order
    opened,        \* the io::Result<Archive> of from_path (NotCalled before)
    iters,         \* the ArchiveIterators handed out by Archive::files
    obs            \* the last accessor call on an entry and what it returned

vars == <<fsPath, fileOpens, entriesStart, stream, opened, iters, obs>>

----------------------------------------------------------------------------
(* Bounds of the model *)

\* longest record stream drawn for the archive-level specification
MaxRecords == 3

\* longest underlying error message drawn for the error-conversion specification
MaxMsgLen == 4

----------------------------------------------------------------------------
(* Option and Result values *)

\* the value of an Option or a Result is held in a sequence of length 0 or 1
None == [some |-> FALSE, val |-> <<>>]
Some(v) == [some |-> TRUE, val |-> <<v>>]

Ok(v) == [ok |-> TRUE, val |-> <<v>>, err |-> <<>>]
Err(e) == [ok |-> FALSE, val |-> <<>>, err |-> e]

\* Result::ok(): Ok(v) -> Some(v), Err(_) -> None
ResultOk(r) == IF r.ok THEN Some(r.val[1]) ELSE None

\* a u64 as two 32-bit words: the value is hi * 2^32 + lo
U64(hi, lo) == [hi |-> hi, lo |-> lo]

----------------------------------------------------------------------------
(* Paths: std::path semantics used by x.path.parent() and p == self.path *)

SEP == "/"
DOT == "."

RECURSIVE SplitOn(_, _, _)
\* the pieces of s between occurrences of the token sep (empty pieces kept)
SplitOn(s, sep, cur) ==
    IF s = <<>> THEN <<cur>>
    ELSE IF Head(s) = sep THEN <<cur>> \o SplitOn(Tail(s), sep, <<>>)
    ELSE SplitOn(Tail(s), sep, Append(cur, Head(s)))

HasRoot(p) == p # <<>> /\ Head(p) = SEP

RECURSIVE NormalComponents(_, _)
\* the components of the segments segs; first tells whether the next segment
\* is the very beginning of a path without a root
NormalComponents(segs, first) ==
    IF segs = <<>> THEN <<>>
    ELSE LET s == Head(segs)
             rest == NormalComponents(Tail(segs), FALSE)
         IN  IF s = <<>> THEN NormalComponents(Tail(segs), FALSE)
             ELSE IF s = <<DOT>>
                  THEN IF first THEN <<[kind |-> "CurDir", text |-> s]>> \o rest
                       ELSE rest
             ELSE IF s = <<DOT, DOT>>
                  THEN <<[kind |-> "ParentDir", text |-> s]>> \o rest
             ELSE <<[kind |-> "Normal", text |-> s]>> \o rest

\* Path::components(): repeated and trailing separators vanish, "." vanishes
\* except at the beginning, a leading separator is the RootDir component
Components(p) ==
    IF p = <<>> THEN <<>>
    ELSE (IF HasRoot(p) THEN <<[kind |-> "RootDir", text |-> <<SEP>>]>> ELSE <<>>)
         \o NormalComponents(SplitOn(p, SEP, <<>>), ~HasRoot(p))

Front(s) == SubSeq(s, 1, Len(s) - 1)

\* Path::parent(): the path without its last component; None for the empty
\* path and for a path that ends in the root
Parent(p) ==
    LET c == Components(p)
    IN  IF c = <<>> \/ c[Len(c)].kind = "RootDir" THEN None
        ELSE Some(Front(c))

\* PartialEq of a Path (given by its components) with a PathBuf
PathEq(comps, q) == comps = Components(q)

----------------------------------------------------------------------------
(* Error: the adapter's display-only error value *)

NL == "\n"
CR == "\r"

\* a line without the carriage return that ends it
StripCR(line) ==
    IF line # <<>> /\ line[Len(line)] = CR THEN Front(line) ELSE line

\* str::lines(): the pieces between line breaks (a line feed, or a carriage
\* return and a line feed), a final empty piece dropped; the last piece, which
\* no line feed ends, keeps its carriage return
Lines(s) ==
    LET parts == SplitOn(s, NL, <<>>)
        n == Len(parts)
    IN  [i \in 1..(IF parts[n] = <<>> THEN n - 1 ELSE n) |->
            IF i < n THEN StripCR(parts[i]) ELSE parts[i]]

\* (variant) the ellipsis is appended to every message
ErrorFromAlwaysEllipsis(full_message) ==
    LET lines == Lines(full_message)
        message == IF lines = <<>> THEN <<>> ELSE lines[1]
    IN  [message |-> message \o <<"...">>]

\* impl From<E> for Error: the first line, plus "..." when a second line exists
ErrorFrom(full_message) ==
    LET lines == Lines(full_message)
        message == IF lines = <<>> THEN <<>> ELSE lines[1]
    IN  [message |-> IF Len(lines) >= 2 THEN message \o <<"...">> ELSE message]

\* the messages of the underlying errors the tar reader can meet
MsgBadPath == <<"invalid path in entry header">>
MsgBadNumber == <<"numeric field was not a number", NL, "when getting uid">>
MsgBadMode == <<"numeric field was not a number", NL, "when getting mode">>
MsgBadMtime == <<"numeric field was not a number", NL, "when getting mtime">>
MsgBadTime == <<"numeric field was not a number">>
MsgUtf8 == <<"invalid utf-8 sequence of 1 bytes from index 0">>
MsgBadLink == <<"invalid link name in entry header">>
MsgBadStream == <<"failed to read entire block", NL>>
MsgNoGnuAtime == <<"archive header does not support atime">>
MsgNoGnuCtime == <<"archive header does not support ctime">>
MsgNoFile == <<"No such file or directory (os error 2)">>
MsgNoEntries == <<"cannot call entries unless archive is at position 0">>
MsgUnsupported == <<"Unsupported archive format">>

----------------------------------------------------------------------------
(* TarReader: one tar::Entry, given by what the tar accessors return on it *)

\* (variant) the reader-computed size wins
SizeReaderFirst(e) == e.entSize

\* TarReader::size: the header field wins, the reader's size is the fallback
Size(e) == IF e.hdrSize.ok THEN e.hdrSize.val[1] ELSE e.entSize

\* (variant) the header path alone, without the fallback
PathNoFallback(e) == e.hdrPath

\* TarReader::path: header().path(), and entry.path() when that fails
Path(e) == IF ~e.hdrPath.ok THEN e.entPath ELSE e.hdrPath

\* TarReader::is_directory / TarReader::is_link
IsDirectory(e) == e.entryType = "Directory"

\* (variant) a record with a link name is taken for a link
IsLinkByLinkName(e) ==
    e.entryType = "Symlink" \/ (e.linkName.ok /\ e.linkName.val[1].some)

IsLink(e) == e.entryType = "Symlink"

\* TarReader::link_target: header().link_name(), whatever the entry type
LinkTarget(e) == e.linkName

Uid(e) == e.uid
Gid(e) == e.gid
Username(e) == e.username
Groupname(e) == e.groupname

\* TarReader::permissions: header().mode()?, then Permissions::from_mode
Permissions(e) == e.mode
Mtime(e) == e.mtime

\* TarReader::atime / ctime: only a GNU header has them
Atime(e) == IF ~e.asGnu THEN Err(MsgNoGnuAtime) ELSE e.gnuAtime
Ctime(e) == IF ~e.asGnu THEN Err(MsgNoGnuCtime) ELSE e.gnuCtime

\* File::filename: the last segment of the path (the path itself if none)
FileName(path) ==
    LET c == Components(path)
    IN  IF c = <<>> \/ c[Len(c)].kind = "RootDir" THEN path ELSE c[Len(c)].text

\* (variant) access and change time are propagated with `?` as well
PropagatedWithAtime(e) ==
    << Permissions(e), Uid(e), Username(e), Gid(e), Groupname(e), Mtime(e),
       Atime(e), Ctime(e), LinkTarget(e) >>

\* the operands of the `?` operators of tar_entry, in evaluation order
Propagated(e) ==
    << Permissions(e), Uid(e), Username(e), Gid(e), Groupname(e), Mtime(e),
       LinkTarget(e) >>

RECURSIVE FirstErr(_)
\* the first failed Result of a sequence, None when none failed
FirstErr(rs) ==
    IF rs = <<>> THEN None
    ELSE IF ~Head(rs).ok THEN Some(Head(rs).err) ELSE FirstErr(Tail(rs))

\* TarReader::tar_entry: the entry, or the Error of the first failed read
TarEntry(e) ==
    LET path == Path(e)
        failed == FirstErr(Propagated(e))
    IN  IF ~path.ok THEN Err(ErrorFrom(path.err))
        ELSE IF failed.some THEN Err(ErrorFrom(failed.val[1]))
        ELSE Ok([ name |-> FileName(path.val[1]),
                  path |-> path.val[1],
                  size |-> Size(e),
                  permissions |-> Some(Permissions(e).val[1]),
                  user |-> Some([id |-> Uid(e).val[1], name |-> Username(e).val[1]]),
                  group |-> Some([id |-> Gid(e).val[1], name |-> Groupname(e).val[1]]),
                  mtime |-> Some(Mtime(e).val[1]),
                  atime |-> ResultOk(Atime(e)),
                  ctime |-> ResultOk(Ctime(e)),
                  link_target |-> LinkTarget(e).val[1],
                  is_link |-> IsLink(e),
                  is_directory |-> IsDirectory(e) ])

RECURSIVE ReadLoopStopAtError(_, _)
\* (variant) the loop ends at the first item the stream fails to emit, and a
\* record that fails to parse is left out
ReadLoopStopAtError(entries, result) ==
    IF entries = <<>> THEN result
    ELSE IF Head(entries).ok
         THEN ReadLoopStopAtError(Tail(entries),
                                  IF TarEntry(Head(entries).val[1]).ok
                                  THEN Append(result, TarEntry(Head(entries).val[1]))
                                  ELSE result)
         ELSE Append(result, Err(ErrorFrom(Head(entries).err)))

RECURSIVE ReadLoop(_, _)
\* the for loop of read_dir: one push per emitted item
ReadLoop(entries, result) ==
    IF entries = <<>> THEN result
    ELSE ReadLoop(Tail(entries),
                  Append(result,
                         IF Head(entries).ok THEN TarEntry(Head(entries).val[1])
                         ELSE Err(ErrorFrom(Head(entries).err))))

\* TarReader::read_dir: open the file, start the entries, run the loop
ReadDir(canOpen, canStart, entries) ==
    IF ~canOpen THEN Err([kind |-> "NotFound", msg |-> MsgNoFile])
    ELSE IF ~canStart THEN Err([kind |-> "Other", msg |-> MsgNoEntries])
    ELSE Ok(ReadLoop(entries, <<>>))

----------------------------------------------------------------------------
(* ArchiveFormat and Archive *)

ToLower(tok) == IF tok = "TAR" THEN "tar" ELSE IF tok = "ZIP" THEN "zip" ELSE tok

RECURSIVE AfterLast(_, _)
\* what follows the last occurrence of tok in s (s itself when there is none)
AfterLast(s, tok) ==
    IF s = <<>> THEN <<>>
    ELSE LET rest == AfterLast(Tail(s), tok)
         IN  IF tok \in {Tail(s)[i] : i \in 1..Len(Tail(s))} THEN rest
             ELSE IF Head(s) = tok THEN Tail(s)
             ELSE s

\* File::extension: the lowercased text after the last dot of the file name
FileExtension(path) ==
    LET c == Components(path)
        name == IF c = <<>> THEN <<>> ELSE c[Len(c)].text
    IN  IF c = <<>> \/ c[Len(c)].kind # "Normal" THEN None
        ELSE IF DOT \notin {name[i] : i \in 1..Len(name)} THEN None
        ELSE Some([i \in 1..Len(AfterLast(name, DOT)) |->
                       ToLower(AfterLast(name, DOT)[i])])

\* (variant) a second extension is taken for a tar container
FromExtensionAlsoZip(extension) ==
    IF extension \in {<<"tar">>, <<"zip">>} THEN Some("Tar") ELSE None

\* ArchiveFormat::from_extension: exact match on "tar"
FromExtension(extension) ==
    IF extension = <<"tar">> THEN Some("Tar") ELSE None

\* (variant) the contents are validated: one Error record fails the open
FromPathValidating(path, canOpen, canStart, entries) ==
    LET contents == ReadDir(canOpen, canStart, entries)
    IN  IF ~FromExtension(IF FileExtension(path).some
                          THEN FileExtension(path).val[1] ELSE <<>>).some
        THEN Err([kind |-> "Unsupported", msg |-> MsgUnsupported])
        ELSE IF ~contents.ok THEN Err(contents.err)
        ELSE IF \E i \in 1..Len(contents.val[1]) : ~contents.val[1][i].ok
             THEN Err([kind |-> "Other", msg |-> MsgBadStream])
        ELSE Ok([format |-> "Tar", path |-> path, contents |-> contents.val[1]])

\* Archive::from_path
FromPath(path, canOpen, canStart, entries) ==
    LET ext == FileExtension(path)
        extension == IF ext.some THEN ext.val[1] ELSE <<>>
        fmt == FromExtension(extension)
        format == IF fmt.some THEN fmt.val[1] ELSE "Unknown"
    IN  IF format = "Tar"
        THEN LET contents == ReadDir(canOpen, canStart, entries)
             IN  IF ~contents.ok THEN Err(contents.err)
                 ELSE Ok([format |-> format, path |-> path,
                          contents |-> contents.val[1]])
        ELSE Err([kind |-> "Unsupported", msg |-> MsgUnsupported])

NotCalled == [called |-> FALSE]

IsOpen == opened.called /\ opened.res.ok

\* the contents of the opened Archive
Contents == opened.res.val[1].contents

----------------------------------------------------------------------------
(* ArchiveIterator *)

IterIds == {1, 2}

NoIter == [live |-> FALSE, path |-> <<>>, pos |-> 0, out |-> <<>>, last |-> "fresh"]

\* (variant) Error records are filtered like entries
KeepsEntriesOnly(it, path) ==
    it.ok /\ (LET p == Parent(it.val[1].path)
              IN  IF p.some THEN PathEq(p.val[1], path) ELSE FALSE)

\* (variant) every descendant of the root is kept, not only its children
KeepsDescendants(it, path) ==
    \/ ~it.ok
    \/ it.ok /\ LET c == Components(it.val[1].path)
                    r == Components(path)
                IN  Len(c) > Len(r) /\ SubSeq(c, 1, Len(r)) = r

\* the condition of ArchiveIterator::next under which a record is returned
Keeps(it, path) ==
    \/ ~it.ok
    \/ it.ok /\ (LET p == Parent(it.val[1].path)
                 IN  IF p.some THEN PathEq(p.val[1], path) ELSE FALSE)

\* (variant) the cursor stops before the record returned, so the next call
\* returns it again
ScanKeepCursor(contents, pos, path) ==
    LET kept == {k \in (pos + 1)..Len(contents) : Keeps(contents[k], path)}
    IN  IF kept = {} THEN [item |-> 0, pos |-> Len(contents)]
        ELSE LET k == CHOOSE j \in kept : \A l \in kept : j <= l
             IN  [item |-> k, pos |-> k - 1]

RECURSIVE Scan(_, _, _)
\* the while loop of ArchiveIterator::next from cursor pos: the index of the
\* record returned (0 for None) and the cursor afterwards
Scan(contents, pos, path) ==
    IF pos >= Len(contents) THEN [item |-> 0, pos |-> Len(contents)]
    ELSE IF Keeps(contents[pos + 1], path) THEN [item |-> pos + 1, pos |-> pos + 1]
    ELSE Scan(contents, pos + 1, path)

----------------------------------------------------------------------------
(* Filelike for ArchiveEntry *)

\* (variant) a target that is the path of a record of the archive is resolved
EntryLinkTargetResolving(x) ==
    IF x.link_target.some
    THEN IF \E j \in 1..Len(Contents) :
                Contents[j].ok /\ Contents[j].val[1].path = x.link_target.val[1]
         THEN [kind |-> "Ok", path |-> x.link_target.val[1]]
         ELSE [kind |-> "Broken", path |-> x.link_target.val[1]]
    ELSE [kind |-> "Err", msg |-> <<"no link target">>]

\* ArchiveEntry::link_target
EntryLinkTarget(x) ==
    IF x.link_target.some THEN [kind |-> "Broken", path |-> x.link_target.val[1]]
    ELSE [kind |-> "Err", msg |-> <<"no link target">>]

\* ArchiveEntry::link_target_recurse
EntryLinkTargetRecurse(x) == EntryLinkTarget(x)

\* ArchiveEntry::is_directory / is_file / is_link
EntryIsDirectory(x) == x.is_directory
EntryIsFile(x) == ~x.is_link /\ ~x.is_directory
EntryIsLink(x) == x.is_link

\* ArchiveEntry::type_char
EntryTypeChar(x) ==
    IF x.is_link THEN "Link"
    ELSE IF x.is_directory THEN "Directory"
    ELSE "File"

\* ArchiveEntry::size: no size for a directory or a link
EntrySize(x) ==
    IF x.is_directory \/ x.is_link THEN None ELSE Some(x.size)

\* (variant) an id that does not fit 32 bits gives no owner
OwnerIdChecked(o) == IF o.id.hi = 0 THEN Some(o.id.lo) ELSE None

\* `o.id as u32`: the low 32-bit word of the id
OwnerId(o) == Some(o.id.lo)

\* ArchiveEntry::user / group
EntryUser(x) == IF x.user.some THEN OwnerId(x.user.val[1]) ELSE None
EntryGroup(x) == IF x.group.some THEN OwnerId(x.group.val[1]) ELSE None

NoObs == [op |-> "none", idx |-> 0, res |-> [kind |-> "none"]]

----------------------------------------------------------------------------
(* The inputs *)

PathA == <<"a", SEP>>
PathAB == <<"a", SEP, "b", DOT, "txt">>
PathAC == <<"a", SEP, "c", SEP>>
PathACD == <<"a", SEP, "c", SEP, "d", DOT, "txt">>
PathDotA == <<DOT, SEP, "a">>
PathAL == <<"a", SEP, "l">>
PathLong == <<"a", SEP, "long">>

\* a record every field of which is readable
Plain(path, type) ==
    [ hdrPath |-> Ok(path), entPath |-> Ok(path),
      hdrSize |-> Ok(5), entSize |-> 5,
      mode |-> Ok(420),
      uid |-> Ok(U64(0, 1000)), gid |-> Ok(U64(0, 1000)),
      username |-> Ok(Some(<<"user">>)), groupname |-> Ok(Some(<<"users">>)),
      mtime |-> Ok(100),
      asGnu |-> FALSE, gnuAtime |-> Err(MsgBadTime), gnuCtime |-> Err(MsgBadTime),
      linkName |-> Ok(None),
      entryType |-> type ]

\* the records of the archive-level specification: records of the listing
\* example, a record outside them, a record with an unreadable ownership id,
\* and an item the stream failed to emit
StreamItems ==
    { Ok(Plain(PathA, "Directory")),
      Ok(Plain(PathAB, "Regular")),
      Ok(Plain(PathACD, "Regular")),
      Ok(Plain(PathDotA, "Regular")),
      Ok([Plain(PathAB, "Regular") EXCEPT !.uid = Err(MsgBadNumber)]),
      Err(MsgBadStream) }

\* records a/, a/b.txt, a/c/, a/c/d.txt
ExampleContainer ==
    << Ok(Plain(PathA, "Directory")), Ok(Plain(PathAB, "Regular")),
       Ok(Plain(PathAC, "Directory")), Ok(Plain(PathACD, "Regular")) >>

Containers ==
    UNION { [1..n -> StreamItems] : n \in 0..MaxRecords } \cup {ExampleContainer}

FsPaths ==
    { <<"x", DOT, "tar">>, <<"x", DOT, "TAR">>, <<"x", DOT, "zip">>, <<"x">>,
      <<"x", DOT, "tar", DOT, "gz">>, <<"d", DOT, "tar", SEP, "x">> }

Roots == { <<>>, <<"a">>, <<"a", SEP, "c">> }

\* the records of the entry-level specification: every combination of
\* readable and unreadable fields
RawRecords ==
    { r \in [ hdrPath : {Ok(PathAL), Err(MsgBadPath)},
              entPath : {Ok(PathLong), Err(MsgBadPath)},
              hdrSize : {Ok(5), Err(MsgBadTime)},
              entSize : {7},
              mode : {Ok(420), Err(MsgBadMode)},
              uid : {Ok(U64(1, 1000)), Ok(U64(1, 0)), Err(MsgBadNumber)},
              gid : {Ok(U64(1, 1000)), Err(MsgBadNumber)},
              username : {Ok(None), Ok(Some(<<"user">>)), Err(MsgUtf8)},
              groupname : {Ok(Some(<<"users">>)), Err(MsgUtf8)},
              mtime : {Ok(100), Err(MsgBadMtime)},
              asGnu : BOOLEAN,
              gnuAtime : {Ok(200), Err(MsgBadTime)},
              gnuCtime : {Ok(300), Err(MsgBadTime)},
              linkName : {Ok(None), Ok(Some(PathAB)), Err(MsgBadLink)},
              entryType : {"Regular", "Directory", "Symlink", "Link"} ] :
        r.asGnu \/ (~r.gnuAtime.ok /\ ~r.gnuCtime.ok) }

\* the texts of an underlying error: up to MaxMsgLen tokens of text, line
\* feeds and carriage returns
MsgTokens == {"x", "y", NL, CR}

Messages == UNION { [1..n -> MsgTokens] : n \in 0..MaxMsgLen }

----------------------------------------------------------------------------
(* The state machine *)

Init ==
    /\ fsPath \in FsPaths
    /\ fileOpens \in BOOLEAN
    /\ entriesStart \in BOOLEAN
    /\ stream \in Containers
    /\ opened = NotCalled
    /\ iters = [i \in IterIds |-> NoIter]
    /\ obs = NoObs

\* one record under test, followed by the plain file a/b.txt
InitEntry ==
    /\ fsPath = <<"x", DOT, "tar">>
    /\ fileOpens = TRUE
    /\ entriesStart = TRUE
    /\ stream \in { <<Ok(r), Ok(Plain(PathAB, "Regular"))>> : r \in RawRecords }
    /\ opened = NotCalled
    /\ iters = [i \in IterIds |-> NoIter]
    /\ obs = NoObs

\* a container whose stream fails on its first item with any message
InitError ==
    /\ fsPath = <<"x", DOT, "tar">>
    /\ fileOpens = TRUE
    /\ entriesStart = TRUE
    /\ stream \in { <<Err(m)>> : m \in Messages }
    /\ opened = NotCalled
    /\ iters = [i \in IterIds |-> NoIter]
    /\ obs = NoObs

\* Archive::from_path(fsPath)
Open ==
    /\ ~opened.called
    /\ opened' = [called |-> TRUE,
                  res |-> FromPath(fsPath, fileOpens, entriesStart, stream)]
    /\ UNCHANGED <<fsPath, fileOpens, entriesStart, stream, iters, obs>>

\* archive.files(root): a new iterator at the start of contents
Files(i, root) ==
    /\ IsOpen
    /\ ~iters[i].live
    /\ \A j \in IterIds : j < i => iters[j].live
    /\ iters' = [iters EXCEPT ![i] = [live |-> TRUE, path |-> root, pos |-> 0,
                                      out |-> <<>>, last |-> "fresh"]]
    /\ UNCHANGED <<fsPath, fileOpens, entriesStart, stream, opened, obs>>

\* (variant) the cursor is shared: next() scans from the furthest cursor of
\* all iterators and moves every live iterator there
IterNextSharedCursor(i) ==
    /\ IsOpen
    /\ iters[i].live
    /\ LET far == CHOOSE p \in {iters[j].pos : j \in IterIds} :
                      \A j \in IterIds : iters[j].pos <= p
           r == Scan(Contents, far, iters[i].path)
       IN  iters' = [j \in IterIds |->
                        IF j = i
                        THEN [iters[j] EXCEPT
                                  !.pos = r.pos,
                                  !.out = IF r.item # 0 THEN Append(@, r.item) ELSE @,
                                  !.last = IF r.item # 0 THEN "some" ELSE "none"]
                        ELSE IF iters[j].live THEN [iters[j] EXCEPT !.pos = r.pos]
                        ELSE iters[j]]
    /\ UNCHANGED <<fsPath, fileOpens, entriesStart, stream, opened, obs>>

\* iterator.next()
IterNext(i) ==
    /\ IsOpen
    /\ iters[i].live
    /\ LET r == Scan(Contents, iters[i].pos, iters[i].path)
       IN  iters' = [iters EXCEPT ![i] =
                        [@ EXCEPT !.pos = r.pos,
                                  !.out = IF r.item # 0 THEN Append(@, r.item) ELSE @,
                                  !.last = IF r.item # 0 THEN "some" ELSE "none"]]
    /\ UNCHANGED <<fsPath, fileOpens, entriesStart, stream, opened, obs>>

\* entry.link_target() on the i-th record
CallLinkTarget(i) ==
    /\ IsOpen
    /\ i \in 1..Len(Contents)
    /\ Contents[i].ok
    /\ obs' = [op |-> "link_target", idx |-> i,
               res |-> EntryLinkTarget(Contents[i].val[1])]
    /\ UNCHANGED <<fsPath, fileOpens, entriesStart, stream, opened, iters>>

\* entry.link_target_recurse() on the i-th record
CallLinkTargetRecurse(i) ==
    /\ IsOpen
    /\ i \in 1..Len(Contents)
    /\ Contents[i].ok
    /\ obs' = [op |-> "link_target_recurse", idx |-> i,
               res |-> EntryLinkTargetRecurse(Contents[i].val[1])]
    /\ UNCHANGED <<fsPath, fileOpens, entriesStart, stream, opened, iters>>

\* entry.is_directory(), is_link(), is_file(), type_char() on the i-th record
CallIsDirectory(i) ==
    /\ IsOpen
    /\ i \in 1..Len(Contents)
    /\ Contents[i].ok
    /\ obs' = [op |-> "is_directory", idx |-> i,
               res |-> EntryIsDirectory(Contents[i].val[1])]
    /\ UNCHANGED <<fsPath, fileOpens, entriesStart, stream, opened, iters>>

CallIsLink(i) ==
    /\ IsOpen
    /\ i \in 1..Len(Contents)
    /\ Contents[i].ok
    /\ obs' = [op |-> "is_link", idx |-> i,
               res |-> EntryIsLink(Contents[i].val[1])]
    /\ UNCHANGED <<fsPath, fileOpens, entriesStart, stream, opened, iters>>

CallIsFile(i) ==
    /\ IsOpen
    /\ i \in 1..Len(Contents)
    /\ Contents[i].ok
    /\ obs' = [op |-> "is_file", idx |-> i,
               res |-> EntryIsFile(Contents[i].val[1])]
    /\ UNCHANGED <<fsPath, fileOpens, entriesStart, stream, opened, iters>>

CallTypeChar(i) ==
    /\ IsOpen
    /\ i \in 1..Len(Contents)
    /\ Contents[i].ok
    /\ obs' = [op |-> "type_char", idx |-> i,
               res |-> EntryTypeChar(Contents[i].val[1])]
    /\ UNCHANGED <<fsPath, fileOpens, entriesStart, stream, opened, iters>>

\* entry.size() on the i-th record
CallSize(i) ==
    /\ IsOpen
    /\ i \in 1..Len(Contents)
    /\ Contents[i].ok
    /\ obs' = [op |-> "size", idx |-> i, res |-> EntrySize(Contents[i].val[1])]
    /\ UNCHANGED <<fsPath, fileOpens, entriesStart, stream, opened, iters>>

\* entry.user() / entry.group() on the i-th record
CallUser(i) ==
    /\ IsOpen
    /\ i \in 1..Len(Contents)
    /\ Contents[i].ok
    /\ obs' = [op |-> "user", idx |-> i, res |-> EntryUser(Contents[i].val[1])]
    /\ UNCHANGED <<fsPath, fileOpens, entriesStart, stream, opened, iters>>

CallGroup(i) ==
    /\ IsOpen
    /\ i \in 1..Len(Contents)
    /\ Contents[i].ok
    /\ obs' = [op |-> "group", idx |-> i, res |-> EntryGroup(Contents[i].val[1])]
    /\ UNCHANGED <<fsPath, fileOpens, entriesStart, stream, opened, iters>>

Next ==
    \/ Open
    \/ \E i \in IterIds, root \in Roots : Files(i, root)
    \/ \E i \in IterIds : IterNext(i)

Spec == Init /\ [][Next]_vars

\* the position in the stream of the record under test
UnderTest == {1}

NextEntry ==
    \/ Open
    \/ \E i \in UnderTest : CallLinkTarget(i)
    \/ \E i \in UnderTest : CallLinkTargetRecurse(i)
    \/ \E i \in UnderTest : CallIsDirectory(i)
    \/ \E i \in UnderTest : CallIsLink(i)
    \/ \E i \in UnderTest : CallIsFile(i)
    \/ \E i \in UnderTest : CallTypeChar(i)
    \/ \E i \in UnderTest : CallSize(i)
    \/ \E i \in UnderTest : CallUser(i)
    \/ \E i \in UnderTest : CallGroup(i)

SpecEntry == InitEntry /\ [][NextEntry]_vars

NextError == Open

SpecError == InitError /\ [][NextError]_vars

----------------------------------------------------------------------------
(* Claims C1 - C5: the archive and its listings (specification Spec) *)

ElemsOf(s) == {s[k] : k \in 1..Len(s)}

\* p names a direct child of root: root's components plus exactly one
DirectChild(p, root) ==
    LET c == Components(p)
        r == Components(root)
    IN  /\ Len(c) = Len(r) + 1
        /\ SubSeq(c, 1, Len(r)) = r
        /\ c[Len(c)].kind # "RootDir"

\* C1: a listing of root yields a parsed entry exactly when the entry is a
\* direct child of root (never root itself, a deeper descendant or an entry
\* of another directory); on the records a/, a/b.txt, a/c/, a/c/d.txt the
\* listing of "a" yields records 2 and 3, of "a/c" record 4, of "" record 1.
C1_DirectChildrenOnly ==
    IsOpen =>
        \A i \in IterIds :
            iters[i].live =>
                /\ \A j \in 1..iters[i].pos :
                       Contents[j].ok =>
                           /\ (j \in ElemsOf(iters[i].out)
                                 <=> DirectChild(Contents[j].val[1].path, iters[i].path))
                           /\ j \in ElemsOf(iters[i].out) =>
                                 Components(Contents[j].val[1].path)
                                     # Components(iters[i].path)
                /\ (stream = ExampleContainer /\ iters[i].last = "none") =>
                       /\ iters[i].path = <<"a">> => iters[i].out = <<2, 3>>
                       /\ iters[i].path = <<"a", SEP, "c">> => iters[i].out = <<4>>
                       /\ iters[i].path = <<>> => iters[i].out = <<1>>

C1_Witness ==
    /\ IsOpen
    /\ stream = ExampleContainer
    /\ iters[1].live /\ iters[1].path = <<"a">>
    /\ iters[1].last = "none" /\ iters[1].out = <<2, 3>>
    /\ iters[2].live /\ iters[2].path = <<>>
    /\ iters[2].last = "none" /\ iters[2].out = <<1>>

\* C2: a listing yields every Error record it has passed, whatever its root,
\* and a listing that has ended has passed every record.
C2_ErrorsAlwaysYielded ==
    IsOpen =>
        \A i \in IterIds :
            iters[i].live =>
                /\ \A j \in 1..iters[i].pos :
                       ~Contents[j].ok => j \in ElemsOf(iters[i].out)
                /\ iters[i].last = "none" => iters[i].pos = Len(Contents)

C2_Witness ==
    /\ IsOpen
    /\ Len(Contents) = 3
    /\ ~Contents[1].ok /\ Contents[2].ok /\ ~Contents[3].ok
    /\ iters[1].live /\ iters[1].path = <<"a", SEP, "c">>
    /\ iters[1].last = "none" /\ iters[1].out = <<1, 3>>
    /\ iters[2].live /\ iters[2].path = <<>>
    /\ iters[2].last = "none" /\ {1, 3} \subseteq ElemsOf(iters[2].out)

\* every field of the record is readable
RecordValid(r) ==
    /\ r.hdrPath.ok /\ r.mode.ok /\ r.uid.ok /\ r.gid.ok
    /\ r.username.ok /\ r.groupname.ok /\ r.mtime.ok /\ r.linkName.ok

\* the item did not come out of the stream, or its ownership id is unreadable
ItemCorrupt(item) == ~item.ok \/ ~item.val[1].uid.ok \/ ~item.val[1].gid.ok

ResultEq(a, b) ==
    /\ a.ok = b.ok
    /\ a.ok => a.val[1] = b.val[1]
    /\ ~a.ok => a.err = b.err

\* C3: read_dir gives one result per emitted record, in emission order; the
\* result at a position is that record's own parse result, so a corrupt record
\* is an Error at its position and every valid record an entry at its own.
C3_OneResultPerRecord ==
    IsOpen =>
        /\ Len(Contents) = Len(stream)
        /\ \A i \in 1..Len(stream) :
               /\ ResultEq(Contents[i],
                           IF stream[i].ok THEN TarEntry(stream[i].val[1])
                           ELSE Err(ErrorFrom(stream[i].err)))
               /\ ItemCorrupt(stream[i]) => ~Contents[i].ok
               /\ (stream[i].ok /\ RecordValid(stream[i].val[1])) =>
                      /\ Contents[i].ok
                      /\ Contents[i].val[1].path = stream[i].val[1].hdrPath.val[1]
        /\ Cardinality({i \in 1..Len(stream) : ItemCorrupt(stream[i])}) = 1 =>
               /\ Cardinality({i \in 1..Len(Contents) : ~Contents[i].ok}) = 1
               /\ Cardinality({i \in 1..Len(Contents) : Contents[i].ok})
                      = Len(stream) - 1

C3_Witness ==
    /\ IsOpen
    /\ Len(stream) = 3
    /\ stream[1].ok /\ RecordValid(stream[1].val[1])
    /\ stream[2].ok /\ ~stream[2].val[1].uid.ok
    /\ stream[3].ok /\ RecordValid(stream[3].val[1])
    /\ Contents[1].ok /\ ~Contents[2].ok /\ Contents[3].ok
    /\ Contents[1].val[1].path = PathACD /\ Contents[3].val[1].path = PathA

\* the extension of the container path is the registered one
Registered ==
    FileExtension(fsPath).some /\ FileExtension(fsPath).val[1] = <<"tar">>

\* C4: from_path on a path whose extension is not "tar" (or is missing) fails
\* with the unsupported-format error and returns no Archive.
C4_UnregisteredFails ==
    (opened.called /\ ~Registered) =>
        /\ ~opened.res.ok
        /\ opened.res.val = <<>>
        /\ opened.res.err.kind = "Unsupported"
        /\ opened.res.err.msg = MsgUnsupported

C4_Witness ==
    /\ opened.called
    /\ fsPath = <<"x", DOT, "zip">>
    /\ fileOpens /\ entriesStart
    /\ Len(stream) = 3 /\ \A i \in 1..3 : stream[i].ok /\ RecordValid(stream[i].val[1])
    /\ ~opened.res.ok

\* C5: from_path on a registered extension succeeds exactly when the file
\* opens and the record stream starts, however many records are Errors; it
\* fails only for an unregistered extension or a reader that cannot open.
C5_OpenIgnoresRecordErrors ==
    opened.called =>
        /\ opened.res.ok <=> (Registered /\ fileOpens /\ entriesStart)
        /\ ~opened.res.ok =>
               \/ ~Registered /\ opened.res.err.kind = "Unsupported"
               \/ Registered /\ ~fileOpens /\ opened.res.err.kind = "NotFound"
               \/ Registered /\ fileOpens /\ ~entriesStart
                      /\ opened.res.err.kind = "Other"
        /\ opened.res.ok => opened.res.val[1].format = "Tar"
                            /\ opened.res.val[1].path = fsPath

C5_Witness ==
    /\ IsOpen
    /\ Len(Contents) = 3
    /\ \A i \in 1..3 : ~Contents[i].ok

----------------------------------------------------------------------------
(* Claims C6 - C10: one record and its entry (specification SpecEntry) *)

\* the record's path is readable from the header or from the fallback
PathReadable(r) == r.hdrPath.ok \/ r.entPath.ok

\* C6 (as claimed): a record whose user or group name cannot be resolved, all
\* other fields being readable, yields an entry whose owner name is absent.
C6_NameFailureDegrades ==
    IsOpen =>
        \A i \in 1..Len(stream) :
            LET r == stream[i].val[1]
            IN  ( /\ stream[i].ok
                  /\ ~r.username.ok \/ ~r.groupname.ok
                  /\ PathReadable(r) /\ r.mode.ok /\ r.uid.ok /\ r.gid.ok
                  /\ r.mtime.ok /\ r.linkName.ok ) =>
                    /\ Contents[i].ok
                    /\ ~r.username.ok => ~Contents[i].val[1].user.val[1].name.some
                    /\ ~r.groupname.ok => ~Contents[i].val[1].group.val[1].name.some

\* the access time (change time) of the record can be read
AtimeReadable(r) == r.asGnu /\ r.gnuAtime.ok
CtimeReadable(r) == r.asGnu /\ r.gnuCtime.ok

\* C7: an unreadable access or change time never makes the record an Error:
\* the entry carries atime/ctime exactly when they are readable; an unreadable
\* modification time does make the record an Error.
C7_OptionalTimes ==
    IsOpen =>
        \A i \in 1..Len(stream) :
            stream[i].ok =>
                LET r == stream[i].val[1]
                IN  /\ ~r.mtime.ok => ~Contents[i].ok
                    /\ ( /\ PathReadable(r) /\ r.mode.ok /\ r.uid.ok /\ r.gid.ok
                         /\ r.username.ok /\ r.groupname.ok /\ r.linkName.ok
                         /\ r.mtime.ok ) => Contents[i].ok
                    /\ Contents[i].ok =>
                           /\ Contents[i].val[1].mtime = Some(r.mtime.val[1])
                           /\ Contents[i].val[1].atime.some <=> AtimeReadable(r)
                           /\ Contents[i].val[1].ctime.some <=> CtimeReadable(r)
                           /\ AtimeReadable(r) =>
                                  Contents[i].val[1].atime = Some(r.gnuAtime.val[1])
                           /\ CtimeReadable(r) =>
                                  Contents[i].val[1].ctime = Some(r.gnuCtime.val[1])

C7_Witness ==
    /\ IsOpen
    /\ stream[1].val[1].asGnu
    /\ ~stream[1].val[1].gnuAtime.ok /\ stream[1].val[1].gnuCtime.ok
    /\ Contents[1].ok
    /\ ~Contents[1].val[1].atime.some
    /\ Contents[1].val[1].ctime.some
    /\ Contents[1].val[1].mtime.some

\* C8: a record whose path (header path and fallback path both), ownership
\* id or permission bits cannot be read yields an Error and no entry; a path
\* readable from either source does not fail the record, and the entry's path
\* is the header path when readable and the fallback path otherwise.
C8_MandatoryFields ==
    IsOpen =>
        \A i \in 1..Len(stream) :
            stream[i].ok =>
                LET r == stream[i].val[1]
                IN  /\ (~PathReadable(r) \/ ~r.uid.ok \/ ~r.gid.ok \/ ~r.mode.ok) =>
                           (~Contents[i].ok /\ Contents[i].val = <<>>)
                    /\ ( /\ PathReadable(r) /\ r.mode.ok /\ r.uid.ok /\ r.gid.ok
                         /\ r.username.ok /\ r.groupname.ok /\ r.linkName.ok
                         /\ r.mtime.ok ) => Contents[i].ok
                    /\ Contents[i].ok =>
                           Contents[i].val[1].path =
                               IF r.hdrPath.ok THEN r.hdrPath.val[1]
                               ELSE r.entPath.val[1]

C8_Witness ==
    /\ IsOpen
    /\ ~stream[1].val[1].hdrPath.ok /\ stream[1].val[1].entPath.ok
    /\ stream[1].val[1].mode.ok /\ ~stream[1].val[1].uid.ok
    /\ ~Contents[1].ok
    /\ Contents[1].err = ErrorFrom(MsgBadNumber)

\* an accessor of the link target has been called on a symbolic-link entry
ObservedLinkTargetOfLink ==
    /\ obs.op \in {"link_target", "link_target_recurse"}
    /\ Contents[obs.idx].val[1].is_link

C10_TargetOnlyOnLinks ==
    IsOpen =>
        \A i \in 1..Len(Contents) :
            Contents[i].ok =>
                (Contents[i].val[1].link_target.some => Contents[i].val[1].is_link)

----------------------------------------------------------------------------
(* Claims C11, C12, C16: the accessors of an entry (specification SpecEntry) *)

\* the class of a record by its type tag
ClassOf(r) ==
    IF r.entryType = "Symlink" THEN "Link"
    ELSE IF r.entryType = "Directory" THEN "Directory"
    ELSE "File"

\* C11: of is_directory(), is_link() and is_file() exactly one is true on
\* every entry the reader produces (never directory and link together), and
\* type_char() names that class; each accessor answers by the record's type.
C11_ExactlyOneClass ==
    IsOpen =>
        /\ \A i \in 1..Len(Contents) :
               Contents[i].ok =>
                   LET x == Contents[i].val[1]
                   IN  /\ ~(EntryIsDirectory(x) /\ EntryIsLink(x))
                       /\ Cardinality({ op \in {"is_directory", "is_link", "is_file"} :
                              CASE op = "is_directory" -> EntryIsDirectory(x)
                                [] op = "is_link" -> EntryIsLink(x)
                                [] op = "is_file" -> EntryIsFile(x) }) = 1
        /\ obs.op = "is_directory" =>
               (obs.res <=> ClassOf(stream[obs.idx].val[1]) = "Directory")
        /\ obs.op = "is_link" =>
               (obs.res <=> ClassOf(stream[obs.idx].val[1]) = "Link")
        /\ obs.op = "is_file" =>
               (obs.res <=> ClassOf(stream[obs.idx].val[1]) = "File")
        /\ obs.op = "type_char" => obs.res = ClassOf(stream[obs.idx].val[1])

C11_Witness ==
    /\ IsOpen
    /\ obs.op = "type_char" /\ obs.idx = 1 /\ obs.res = "File"
    /\ stream[1].val[1].entryType = "Link"
    /\ Contents[1].val[1].link_target.some
    /\ EntryIsFile(Contents[1].val[1])
    /\ ~EntryIsDirectory(Contents[1].val[1]) /\ ~EntryIsLink(Contents[1].val[1])

\* C12: size() of a directory or a symbolic link is "not applicable" whatever
\* the raw size is; size() of any other entry is the raw size: the size of the
\* header when that field is readable, the reader-computed size otherwise.
C12_SizeByClass ==
    (IsOpen /\ obs.op = "size") =>
        LET r == stream[obs.idx].val[1]
            x == Contents[obs.idx].val[1]
        IN  /\ r.entryType \in {"Directory", "Symlink"} => ~obs.res.some
            /\ r.entryType \notin {"Directory", "Symlink"} =>
                   /\ obs.res.some
                   /\ obs.res.val[1] = x.size
                   /\ r.hdrSize.ok => obs.res.val[1] = r.hdrSize.val[1]
                   /\ ~r.hdrSize.ok => obs.res.val[1] = r.entSize

C12_Witness ==
    /\ IsOpen
    /\ obs.op = "size" /\ obs.idx = 1
    /\ stream[1].val[1].entryType = "Directory"
    /\ ~stream[1].val[1].hdrSize.ok
    /\ Contents[1].val[1].size = 7
    /\ ~obs.res.some

\* the raw record the entry under test was built from
RawUnderTest == stream[1].val[1]

\* C16: user() and group() report the low 32 bits of the record's 64-bit id:
\* an id of 2^32 or more is reported as a smaller id (2^32 as 0), and two
\* entries whose ids have the same low word and different high words report
\* the same owner.
C16_OwnerIdModulo ==
    (IsOpen /\ Contents[1].ok /\ Contents[2].ok) =>
        /\ (obs.op = "user" /\ obs.idx = 1) =>
               /\ obs.res = Some(RawUnderTest.uid.val[1].lo)
               /\ RawUnderTest.uid.val[1] = U64(1, 0) => obs.res = Some(0)
               /\ (RawUnderTest.uid.val[1].lo = stream[2].val[1].uid.val[1].lo) =>
                      obs.res = EntryUser(Contents[2].val[1])
        /\ (obs.op = "group" /\ obs.idx = 1) =>
               /\ obs.res = Some(RawUnderTest.gid.val[1].lo)
               /\ (RawUnderTest.gid.val[1].lo = stream[2].val[1].gid.val[1].lo) =>
                      obs.res = EntryGroup(Contents[2].val[1])

C16_Witness ==
    /\ IsOpen /\ Contents[1].ok /\ Contents[2].ok
    /\ obs.op = "user" /\ obs.idx = 1
    /\ RawUnderTest.uid.val[1] = U64(1, 1000)
    /\ stream[2].val[1].uid.val[1] = U64(0, 1000)
    /\ obs.res = Some(1000)
    /\ EntryUser(Contents[2].val[1]) = Some(1000)

----------------------------------------------------------------------------
(* Claims C13, C15: iterators over one archive (specification Spec) *)

RECURSIVE SoloRun(_, _, _)
\* what an iterator over contents with root path yields from cursor pos on
\* when it is the only iterator and is run to its end
SoloRun(contents, pos, path) ==
    LET r == Scan(contents, pos, path)
    IN  IF r.item = 0 THEN <<>>
        ELSE <<r.item>> \o SoloRun(contents, r.pos, path)

\* C13: a next() call on one iterator leaves the archive and every other
\* iterator as they were, and what the iterator has yielded is what it
\* yields when it runs alone over the same contents and root: a prefix of that
\* run, the whole run once it has returned None.
C13_IndependentIterators ==
    [][\A i \in IterIds : IterNext(i) =>
          LET solo == SoloRun(Contents, 0, iters[i].path)
              out == iters'[i].out
          IN  /\ opened' = opened
              /\ \A j \in IterIds \ {i} : iters'[j] = iters[j]
              /\ iters'[i].path = iters[i].path
              /\ Len(out) <= Len(solo)
              /\ out = SubSeq(solo, 1, Len(out))
              /\ iters'[i].last = "none" => out = solo
              /\ iters'[i].last = "some" =>
                     (out # <<>> /\ iters'[i].pos = out[Len(out)])]_vars

C13_Witness ==
    /\ IsOpen
    /\ stream = ExampleContainer
    /\ iters[1].live /\ iters[1].path = <<"a">>
    /\ iters[1].last = "some" /\ iters[1].out = <<2>>
    /\ iters[2].live /\ iters[2].path = <<"a">>
    /\ iters[2].last = "none" /\ iters[2].out = <<2, 3>>

\* what holds of iterator `it` after a call of next(): the records yielded so
\* far are in stored order, each at most once, all among the records visited,
\* and no more records are visited than the archive has
OrderedOnce(it) ==
    /\ it.pos \in 0..Len(Contents)
    /\ \A k \in 1..Len(it.out) : it.out[k] \in 1..it.pos
    /\ \A k \in 1..Len(it.out) : \A l \in 1..Len(it.out) :
           k < l => it.out[k] < it.out[l]

\* C15: every next() leaves the yielded sequence a subsequence of contents
\* in stored order without repetition, moves the cursor forward by at least
\* one record when any remain (so at most |contents| records are ever
\* visited), and after a None returns None again, yielding nothing more.
C15_NextAdvancesAndStaysDone ==
    [][\A i \in IterIds : IterNext(i) =>
          /\ OrderedOnce(iters'[i])
          /\ iters[i].pos < Len(Contents) => iters'[i].pos > iters[i].pos
          /\ iters'[i].pos >= iters[i].pos
          /\ iters'[i].last = "none" => iters'[i].pos = Len(Contents)
          /\ iters[i].last = "none" =>
                 (iters'[i].last = "none" /\ iters'[i].out = iters[i].out)]_vars

C15_Witness ==
    /\ IsOpen /\ stream = ExampleContainer
    /\ iters[1].live /\ iters[1].path = <<"a">>
    /\ iters[1].last = "none" /\ iters[1].out = <<2, 3>>
    /\ iters[1].pos = Len(Contents)
    /\ iters[2].live /\ iters[2].path = <<>> /\ iters[2].last = "some"

----------------------------------------------------------------------------
(* Claim C14: the conversion into Error (specification SpecError) *)

\* the positions of the line feeds of a text
LineFeeds(m) == {k \in 1..Len(m) : m[k] = NL}

\* the text before the first line break of m (all of m when it has none)
FirstLineOf(m) ==
    IF LineFeeds(m) = {} THEN m
    ELSE LET k == CHOOSE j \in LineFeeds(m) : \A l \in LineFeeds(m) : j <= l
         IN  IF k > 1 /\ m[k - 1] = CR THEN SubSeq(m, 1, k - 2)
             ELSE SubSeq(m, 1, k - 1)

\* text follows the first line break of m
MoreThanOneLine(m) == \E k \in LineFeeds(m) : k < Len(m)

====
